---- MODULE Spec2Model ----
(***************************************************************************)
(* Model of app.py: a Flask service that receives WhatsApp webhook         *)
(* messages, asks a generative-AI service to extract quotation fields,     *)
(* renders an HTML quotation, emails it and replies on WhatsApp.           *)
(*                                                                         *)
(* Two specifications:                                                     *)
(*   SpecParse - parse_command_with_ai as a function of the service's      *)
(*               answer, over a bounded set of answers;                    *)
(*   Spec      - the three routes (GET /webhook, POST /webhook,            *)
(*               POST /quote) served for several concurrent requests.      *)
(***************************************************************************)
EXTENDS Integers, Sequences, FiniteSets, TLC

(***************************************************************************)
(* Python / JSON values.  Every value is a record tagged by its type.      *)
(* Amounts of type float are kept in hundredths (c).                       *)
(***************************************************************************)
None == [t |-> "None"]
Absent == [t |-> "absent"]
JStr(s) == [t |-> "str", s |-> s]
JInt(n) == [t |-> "int", n |-> n]
JFloat(c) == [t |-> "float", c |-> c]
JList(k) == [t |-> "list", len |-> k]

\* The JSON values a field of the service's answer is drawn from; Absent
\* stands for a key that is not in the object.
JsonValues ==
    { Absent, None, JStr(""), JStr("Raju"), JStr("500"), JStr("25.5"), JStr("Nos"),
      JStr("kg"), JInt(0), JInt(500), JFloat(2550), JList(1) }

\* Python truth value of v (the `not x` tests).  A value without a type
\* tag is a dict with keys, which is true.
Truthy(v) ==
    IF "t" \notin DOMAIN v
    THEN TRUE
    ELSE CASE v.t = "None"  -> FALSE
           [] v.t = "str"   -> v.s # ""
           [] v.t = "int"   -> v.n # 0
           [] v.t = "float" -> v.c # 0
           [] v.t = "list"  -> v.len > 0
           [] OTHER         -> TRUE

Ok(x) == [exc |-> "none", val |-> x]
Raise(e) == [exc |-> e, val |-> None]

\* float(v), result in hundredths.
PyFloat(v) ==
    CASE v.t = "int"   -> Ok(v.n * 100)
      [] v.t = "float" -> Ok(v.c)
      [] v.t = "str"   ->
            CASE v.s = "500"  -> Ok(50000)
              [] v.s = "25.5" -> Ok(2550)
              [] OTHER        -> Raise("ValueError")
      [] OTHER         -> Raise("TypeError")

\* int(v): a float is truncated, a string must be an integer literal.
PyInt(v) ==
    CASE v.t = "int"   -> Ok(v.n)
      [] v.t = "float" -> Ok(v.c \div 100)
      [] v.t = "str"   ->
            CASE v.s = "500" -> Ok(500)
              [] OTHER       -> Raise("ValueError")
      [] OTHER         -> Raise("TypeError")

(***************************************************************************)
(* parse_command_with_ai                                                   *)
(***************************************************************************)
Fields ==
    { "q_no", "date", "company_name", "customer_name", "product",
      "quantity", "rate", "units", "hsn", "email" }

OutFields == Fields \cup { "rate_formatted", "total_formatted" }

\* datetime.date.today().strftime("%B %d, %Y")
Today == JStr("November 03, 2026")

required_fields_noEmail == << "product", "customer_name", "rate", "quantity" >>

\* required_fields, in the order the loop visits them.
required_fields == << "product", "customer_name", "email", "rate", "quantity" >>

\* `field not in context or not context[field]` for a dict.
FieldMissing(context, field) ==
    context[field] = Absent \/ ~Truthy(context[field])

\* The defaults of lines 108-112, applied to a validated dict.
WithDefaults(context) ==
    [f \in DOMAIN context |->
        CASE f = "date" ->
                IF context[f] = Absent \/ ~Truthy(context[f]) THEN Today ELSE context[f]
          [] f \in { "company_name", "hsn", "q_no" } ->
                IF context[f] = Absent THEN JStr("") ELSE context[f]
          [] f = "units" ->
                IF context[f] = Absent \/ ~Truthy(context[f]) THEN JStr("Nos") ELSE context[f]
          [] OTHER -> context[f]]

\* Lines 96-106: the numeric conversion.  float(rate) runs first, then
\* int(quantity); a ValueError is caught by the inner handler (return None),
\* any other exception leaves the block.
Converted(context) ==
    LET price_num == PyFloat(context["rate"])
        qty_num   == PyInt(context["quantity"])
        first     == IF price_num.exc # "none" THEN price_num.exc ELSE qty_num.exc
    IN  CASE first = "ValueError" -> Ok(None)
          [] first # "none"       -> Raise(first)
          [] OTHER ->
              Ok([f \in OutFields |->
                    CASE f = "rate_formatted"  -> [t |-> "inr", c |-> price_num.val]
                      [] f = "total_formatted" ->
                            [t |-> "inr", c |-> price_num.val * qty_num.val]
                      [] f = "quantity"        -> JStr(ToString(qty_num.val))
                      [] OTHER                 -> context[f]])

\* The service's answer: resp.kind says how the call and json.loads ended,
\* resp.fields is the decoded object when it is one.
\*   exception / quota  generate_content (or response.text) raised
\*   not_json           json.loads raised
\*   scalar             JSON null, number or boolean: `in` raises TypeError
\*   seq_without        JSON list or string without the word 'product'
\*   seq_with           JSON list or string containing it: indexing raises
\*   dict               a JSON object
\* The body of the outer try block, lines 61-115.
ParseBody(resp) ==
    CASE resp.kind = "quota"       -> Raise("ResourceExhausted")
      [] resp.kind = "exception"   -> Raise("Exception")
      [] resp.kind = "not_json"    -> Raise("JSONDecodeError")
      [] resp.kind = "scalar"      -> Raise("TypeError")
      [] resp.kind = "seq_with"    -> Raise("TypeError")
      [] resp.kind = "seq_without" -> Ok(None)
      [] OTHER ->
          IF \E i \in DOMAIN required_fields :
                FieldMissing(resp.fields, required_fields[i])
          THEN Ok(None)
          ELSE LET c == Converted(resp.fields)
               IN  IF c.exc # "none" \/ c.val = None THEN c ELSE Ok(WithDefaults(c.val))

\* Lines 117-119: `except Exception` turns every exception into None.
parse_command_with_ai(resp) ==
    LET b == ParseBody(resp)
    IN  IF b.exc # "none" THEN None ELSE b.val

(***************************************************************************)
(* Bounded set of answers: the canonical object with at most MaxDev        *)
(* fields replaced by arbitrary JSON values.                               *)
(***************************************************************************)
MaxDev == 2

Canonical ==
    [f \in Fields |->
        CASE f = "q_no"          -> JStr("110")
          [] f = "date"          -> JStr("October 01, 2025")
          [] f = "company_name"  -> JStr("Raj Pvt Ltd")
          [] f = "customer_name" -> JStr("Raju")
          [] f = "product"       -> JStr("3 inch SS Pipe Sch 40")
          [] f = "quantity"      -> JStr("500")
          [] f = "rate"          -> JInt(600)
          [] f = "units"         -> JStr("Pcs")
          [] f = "hsn"           -> JStr("7304")
          [] f = "email"         -> JStr("raju@example.com")]

NonDictKinds == { "exception", "quota", "not_json", "scalar", "seq_without", "seq_with" }

\* The answer that differs from Canonical by g on the fields S.
Deviate(S, g) ==
    [kind |-> "dict", fields |-> [f \in Fields |-> IF f \in S THEN g[f] ELSE Canonical[f]]]

(***************************************************************************)
(* External collaborators and helpers of the routes                        *)
(***************************************************************************)

\* f-string rendering of a context value ({context['x']}).
Render(v) ==
    CASE v.t = "str"    -> v.s
      [] v.t = "None"   -> "None"
      [] v.t = "int"    -> ToString(v.n)
      [] v.t = "float"  -> ToString(v.c \div 100) \o "." \o ToString(v.c % 100)
      [] v.t = "inr"    -> "Rs " \o ToString(v.c \div 100) \o "." \o ToString(v.c % 100)
      [] OTHER          -> "[...]"

\* create_quotation_html: always a non-empty string; the cells it fills in.
create_quotation_html(context) ==
    [t       |-> "html",
     To      |-> Render(context["customer_name"]),
     Company |-> Render(context["company_name"]),
     Date    |-> Render(context["date"]),
     QuoteNo |-> Render(context["q_no"]),
     Product |-> Render(context["product"]),
     Qty     |-> Render(context["quantity"]),
     Unit    |-> Render(context["units"]),
     Rate    |-> Render(context["rate_formatted"]),
     HSN     |-> Render(context["hsn"]),
     Total   |-> Render(context["total_formatted"])]

\* What the SMTP relay does with one send.
SmtpOutcomes == { "sent", "smtp_error" }

send_email_quote_raising(html_body, credentials, smtp) ==
    CASE ~Truthy(html_body) -> Ok(FALSE)
      [] ~credentials       -> Ok(FALSE)
      [] smtp = "sent"      -> Ok(TRUE)
      [] OTHER              -> Raise("SMTPException")

\* send_email_quote: True when yagmail sent the mail, False when there is
\* no body, no credentials, or yagmail raised.
send_email_quote(html_body, credentials, smtp) ==
    CASE ~Truthy(html_body) -> Ok(FALSE)
      [] ~credentials       -> Ok(FALSE)
      [] smtp = "sent"      -> Ok(TRUE)
      [] OTHER              -> Ok(FALSE)

\* What the Meta API does with one POST.
PostOutcomes == { "ok", "RequestException" }

send_whatsapp_reply_raising(credentials, post) ==
    CASE ~credentials -> Ok(None)
      [] post = "ok"  -> Ok(None)
      [] OTHER        -> Raise("RequestException")

\* send_whatsapp_reply: returns None; a RequestException is caught.
send_whatsapp_reply(credentials, post) ==
    CASE ~credentials -> Ok(None)
      [] post = "ok"  -> Ok(None)
      [] OTHER        -> Ok(None)

\* Flask's answer when a view function raises.
FlaskUnhandled == [status |-> 500, body |-> "Internal Server Error"]

VerifyGet_noTokenCheck(mode, token, verify_token) ==
    IF mode = JStr("subscribe")
    THEN IF token = verify_token
         THEN [status |-> 200, body |-> "hub.challenge"]
         ELSE [status |-> 403, body |-> "Verification token mismatch"]
    ELSE [status |-> 400, body |-> "Failed verification"]

\* Lines 235-246.  request.args.get gives None for a missing parameter.
VerifyGet(mode, token, verify_token) ==
    IF mode = JStr("subscribe") /\ Truthy(token)
    THEN IF token = verify_token
         THEN [status |-> 200, body |-> "hub.challenge"]
         ELSE [status |-> 403, body |-> "Verification token mismatch"]
    ELSE [status |-> 400, body |-> "Failed verification"]

\* Lines 254-281: what the try block of the POST branch leaves in
\* (customer_phone_number, command_text), or "ignore" when it returned 200.
\*   not_json    request.json is None or raises           (except, 278-281)
\*   no_entry    no 'entry' / empty 'entry'               (256-258)
\*   no_changes  no 'changes' / empty 'changes'           (256-258)
\*   no_value    change without messages or statuses      (274-276)
\*   status      a status update                          (270-273)
\*   non_text    a message whose type is not 'text'       (267-269)
\*   text        a text message; x = from, y = text.body  (264-266)
ReadPayload(payload) ==
    IF payload.kind = "text" /\ payload.x # Absent /\ payload.y # Absent
    THEN [ignore |-> FALSE, customer_phone_number |-> payload.x, command_text |-> payload.y]
    ELSE [ignore |-> TRUE, customer_phone_number |-> None, command_text |-> None]

(***************************************************************************)
(* State                                                                   *)
(***************************************************************************)
NumRequests == 2

Requests == 1 .. NumRequests

VARIABLES
    answer, result, called,   \* SpecParse: the service's answer, the value returned
    GMAIL_SET,                \* GMAIL_USER and GMAIL_PASS are both set
    META_SET,                 \* META_ACCESS_TOKEN and PHONE_NUMBER_ID are both set
    META_VERIFY_TOKEN,        \* None when the variable is not in the environment
    reqs                      \* the requests being served

pvars == << answer, result, called >>
vars == << answer, result, called, GMAIL_SET, META_SET, META_VERIFY_TOKEN, reqs >>

Idle ==
    [route |-> "none", payload |-> [kind |-> "none", x |-> None, y |-> None],
     pc |-> "idle",
     customer_phone_number |-> None, command_text |-> None,
     ai |-> "none", context |-> None,
     smtp |-> "none", email_sent |-> FALSE,
     replyText |-> "none", post |-> "none",
     status |-> 0, body |-> "none",
     parseCalls |-> 0, aiCalls |-> 0, emailCalls |-> 0, smtpSends |-> 0,
     replyCalls |-> 0, posts |-> 0]

\* The answers the service gives in Spec, by name: a quota error, an object
\* without an email, and the complete object.
ServiceAnswer(name) ==
    CASE name = "quota" -> [kind |-> "quota", fields |-> Canonical]
      [] name = "no_email" ->
            [kind |-> "dict", fields |-> [Canonical EXCEPT !["email"] = None]]
      [] OTHER -> [kind |-> "dict", fields |-> Canonical]

ServiceAnswers == { "quota", "no_email", "full" }

ConfigInit ==
    /\ GMAIL_SET \in BOOLEAN
    /\ META_SET \in BOOLEAN
    /\ META_VERIFY_TOKEN \in { None, JStr("tokA") }

InitParse ==
    /\ \/ \E S \in SUBSET Fields :
             /\ Cardinality(S) <= MaxDev
             /\ \E g \in [S -> JsonValues] : answer = Deviate(S, g)
       \/ \E k \in NonDictKinds : answer = [kind |-> k, fields |-> Canonical]
    /\ result = None
    /\ called = FALSE
    /\ GMAIL_SET = TRUE /\ META_SET = TRUE /\ META_VERIFY_TOKEN = None
    /\ reqs = [r \in Requests |-> Idle]

Extract ==
    /\ ~called
    /\ result' = parse_command_with_ai(answer)
    /\ called' = TRUE
    /\ UNCHANGED << answer, GMAIL_SET, META_SET, META_VERIFY_TOKEN, reqs >>

NextParse == Extract

SpecParse == InitParse /\ [][NextParse]_vars

Init ==
    /\ answer = [kind |-> "dict", fields |-> Canonical]
    /\ result = None
    /\ called = TRUE
    /\ ConfigInit
    /\ reqs = [r \in Requests |-> Idle]

Config == << GMAIL_SET, META_SET, META_VERIFY_TOKEN >>

Set(r, rec) == /\ reqs' = [reqs EXCEPT ![r] = rec]
               /\ UNCHANGED << pvars, Config >>

\* return Response(status=...)
Respond(rec, status, body) ==
    [rec EXCEPT !.pc = "done", !.status = status, !.body = body]

(***************************************************************************)
(* GET /webhook                                                            *)
(***************************************************************************)
HandleGet(r) ==
    /\ reqs[r].pc = "idle"
    /\ \E mode \in { None, JStr("subscribe"), JStr("unsubscribe") },
          token \in { None, JStr(""), JStr("tokA"), JStr("tokB") } :
          LET v == VerifyGet(mode, token, META_VERIFY_TOKEN)
              rec == [reqs[r] EXCEPT !.route = "GET /webhook",
                         !.payload = [kind |-> "verify", x |-> mode, y |-> token]]
          IN  Set(r, Respond(rec, v.status, v.body))

(***************************************************************************)
(* POST /webhook                                                           *)
(***************************************************************************)
Sender == JStr("919900000001")
Text == JStr("quote 110 for Raju")

\* The payloads of a POST: the six shapes that are ignored, and text
\* messages whose sender or text is missing, empty, or (for the text) not a
\* string.
WebhookPayloads ==
    { [kind |-> k, x |-> None, y |-> None] :
        k \in { "not_json", "no_entry", "no_changes", "no_value", "status", "non_text" } }
    \cup
    { [kind |-> "text", x |-> p[1], y |-> p[2]] :
        p \in { << Sender, Text >>, << Sender, JInt(5) >>, << Sender, JStr("") >>,
                << Sender, Absent >>, << JStr(""), Text >>, << Absent, Text >> } }

ShouldProcess_dedup(r) ==
    /\ Truthy(reqs[r].command_text)
    /\ Truthy(reqs[r].customer_phone_number)
    /\ ~\E q \in Requests \ {r} :
          /\ reqs[q].route = "POST /webhook"
          /\ reqs[q].payload = reqs[r].payload
          /\ reqs[q].parseCalls > 0

\* Line 284: `if command_text and customer_phone_number`.
ShouldProcess(r) ==
    /\ Truthy(reqs[r].command_text)
    /\ Truthy(reqs[r].customer_phone_number)

\* Lines 249-281: the request arrives and its payload is read.
WebhookPost(r) ==
    /\ reqs[r].pc = "idle"
    /\ \E payload \in WebhookPayloads :
          LET p == ReadPayload(payload)
              rec == [reqs[r] EXCEPT !.route = "POST /webhook", !.payload = payload,
                         !.customer_phone_number = p.customer_phone_number,
                         !.command_text = p.command_text]
          IN  IF p.ignore
              THEN Set(r, Respond(rec, 200, ""))
              ELSE Set(r, [rec EXCEPT !.pc = "read"])

\* Lines 284, 316-318: the test on what was read.
WebhookDispatch(r) ==
    /\ reqs[r].pc = "read"
    /\ reqs[r].route = "POST /webhook"
    /\ IF ShouldProcess(r)
       THEN Set(r, [reqs[r] EXCEPT !.pc = "parse"])
       ELSE Set(r, Respond(reqs[r], 200, ""))

(***************************************************************************)
(* parse_command_with_ai, called from both POST routes                     *)
(***************************************************************************)
\* Lines 59-84: up to the call of generate_content.  A command_text that
\* is not a string makes line 83 raise before the service is called.
BeginParse(r) ==
    /\ reqs[r].pc = "parse"
    /\ IF reqs[r].command_text.t = "str"
       THEN Set(r, [reqs[r] EXCEPT !.pc = "in_ai",
                       !.parseCalls = @ + 1, !.aiCalls = @ + 1])
       ELSE Set(r, [reqs[r] EXCEPT !.pc = "parsed", !.parseCalls = @ + 1,
                       !.context = None])

\* Lines 84-119: the service answers and the answer is validated.
AiReturn(r) ==
    /\ reqs[r].pc = "in_ai"
    /\ \E a \in ServiceAnswers :
          Set(r, [reqs[r] EXCEPT !.pc = "parsed", !.ai = a,
                     !.context = parse_command_with_ai(ServiceAnswer(a))])

(***************************************************************************)
(* POST /webhook, after extraction                                         *)
(***************************************************************************)
NotUnderstood == "Sorry, I couldn't understand your request."
InternalError == "Sorry, an internal error occurred while creating your document."
EmailFailed == "Sorry, I created the quote but failed to send the email"
Success == "Success! Your quotation has been generated and sent"

\* One call of send_whatsapp_reply followed by `return Response(status=200)`;
\* an exception leaving send_whatsapp_reply ends the request with Flask's 500.
ReplyAndReturn(r, rec, text, post) ==
    LET out == send_whatsapp_reply(META_SET, post)
        sent == [rec EXCEPT !.replyText = text, !.replyCalls = @ + 1,
                    !.post = IF META_SET THEN post ELSE "none",
                    !.posts = IF META_SET THEN @ + 1 ELSE @]
    IN  IF out.exc # "none"
        THEN Set(r, Respond(sent, FlaskUnhandled.status, FlaskUnhandled.body))
        ELSE Set(r, Respond(sent, 200, ""))

\* Lines 289-292.
ReplyNotUnderstood(r) ==
    /\ reqs[r].pc = "parsed"
    /\ reqs[r].route = "POST /webhook"
    /\ ~Truthy(reqs[r].context)
    /\ \E post \in PostOutcomes : ReplyAndReturn(r, reqs[r], NotUnderstood, post)

\* Lines 295-305: render and send the email (298-301 when there is no HTML).
SendEmail(r) ==
    /\ reqs[r].pc = "parsed"
    /\ reqs[r].route = "POST /webhook"
    /\ Truthy(reqs[r].context)
    /\ LET html_quote == create_quotation_html(reqs[r].context)
       IN  IF ~Truthy(html_quote)
           THEN \E post \in PostOutcomes : ReplyAndReturn(r, reqs[r], InternalError, post)
           ELSE \E smtp \in SmtpOutcomes :
                  LET out == send_email_quote(html_quote, GMAIL_SET, smtp)
                      rec == [reqs[r] EXCEPT !.emailCalls = @ + 1,
                                 !.smtp = IF GMAIL_SET THEN smtp ELSE "none",
                                 !.smtpSends = IF GMAIL_SET THEN @ + 1 ELSE @]
                  IN  IF out.exc # "none"
                      THEN Set(r, Respond(rec, FlaskUnhandled.status, FlaskUnhandled.body))
                      ELSE Set(r, [rec EXCEPT !.pc = "emailed", !.email_sent = out.val])

ResultReply_alwaysSuccess(email_sent) == Success

\* Lines 307-313: the text of the reply after the email step.
ResultReply(email_sent) == IF email_sent THEN Success ELSE EmailFailed

\* Lines 307-315.
ReplyResult(r) ==
    /\ reqs[r].pc = "emailed"
    /\ \E post \in PostOutcomes :
          ReplyAndReturn(r, reqs[r], ResultReply(reqs[r].email_sent), post)

(***************************************************************************)
(* POST /quote                                                             *)
(***************************************************************************)
\* The request body: a JSON object with key 'message' (x), or JSON that is
\* not an object, on which data.get raises AttributeError.
QuoteBodies ==
    { [kind |-> "object", x |-> m, y |-> None] :
        m \in { Absent, JStr(""), JStr("quote 110 for Raju") } }
    \cup { [kind |-> "non_object", x |-> None, y |-> None] }

\* Lines 329-333.
QuotePost(r) ==
    /\ reqs[r].pc = "idle"
    /\ \E b \in QuoteBodies :
          LET command_text == IF b.x = Absent THEN None ELSE b.x
              rec == [reqs[r] EXCEPT !.route = "POST /quote", !.payload = b,
                         !.command_text = command_text]
          IN  CASE b.kind = "non_object" ->
                      Set(r, Respond(rec, FlaskUnhandled.status, FlaskUnhandled.body))
                [] ~Truthy(command_text) ->
                      Set(r, Respond(rec, 400, "No message found"))
                [] OTHER -> Set(r, [rec EXCEPT !.pc = "parse"])

local_test_result_always200(context) ==
    [status |-> 200, body |-> IF Truthy(context) THEN "html" ELSE "AI parsing failed"]

\* Lines 335-346: the answer of /quote once extraction has returned.
local_test_result(context) ==
    IF ~Truthy(context)
    THEN [status |-> 500, body |-> "AI parsing failed"]
    ELSE IF ~Truthy(create_quotation_html(context))
         THEN [status |-> 500, body |-> "HTML creation failed"]
         ELSE [status |-> 200, body |-> "html"]

QuoteRespond(r) ==
    /\ reqs[r].pc = "parsed"
    /\ reqs[r].route = "POST /quote"
    /\ LET res == local_test_result(reqs[r].context)
       IN  Set(r, Respond(reqs[r], res.status, res.body))

\* The steps of request r.
StepOf(r) ==
    \/ HandleGet(r)
    \/ WebhookPost(r)
    \/ WebhookDispatch(r)
    \/ BeginParse(r)
    \/ AiReturn(r)
    \/ ReplyNotUnderstood(r)
    \/ SendEmail(r)
    \/ ReplyResult(r)
    \/ QuotePost(r)
    \/ QuoteRespond(r)

Next == \E r \in Requests : StepOf(r)

Spec == Init /\ [][Next]_vars

(***************************************************************************)
(* Properties of parse_command_with_ai (SpecParse)                         *)
(***************************************************************************)
NonEmpty(v) == v \notin { Absent, None, JStr("") }

ClaimRequired == { "customer_name", "quantity", "rate", "email", "product" }

\* C1: extraction returns either None or a record in which every required
\* field (customer_name, quantity, rate, email, product) is present and
\* non-empty, whatever the service answered; an answer without an email
\* (key missing, null or empty) always gives None.
C1_NoPartialRecord ==
    called =>
        /\ \/ result = None
           \/ \A f \in ClaimRequired : NonEmpty(result[f])
        /\ answer.kind # "dict" => result = None
        /\ ~NonEmpty(answer.fields["email"]) => result = None

\* An answer with every field but the email was given and Failure came back.
C1_Witness ==
    /\ called
    /\ answer.kind = "dict"
    /\ answer.fields["email"] = Absent
    /\ \A f \in ClaimRequired \ { "email" } : answer.fields[f] = Canonical[f]
    /\ result = None

NormalizedUnits == { JStr("Pcs"), JStr("Kgs"), JStr("MT"), JStr("Ton"), JStr("Bundle") }

\* C6: in every successful result units is one of Pcs, Kgs, MT, Ton, Bundle,
\* and it is Pcs when the answer has no unit or an unknown one.
C6_UnitsNormalized ==
    (called /\ result # None) =>
        /\ result["units"] \in NormalizedUnits
        /\ answer.fields["units"] \notin NormalizedUnits => result["units"] = JStr("Pcs")

\* C7: when the answer has no company_name key, or has it set to null, and
\* the required fields are present, extraction succeeds and company_name in
\* the result is the empty string.
C7_CompanyEmpty ==
    ( /\ called
      /\ answer.kind = "dict"
      /\ answer.fields["company_name"] \in { Absent, None }
      /\ \A f \in ClaimRequired : answer.fields[f] = Canonical[f] )
    => /\ result # None
       /\ result["company_name"] = JStr("")

(***************************************************************************)
(* Properties of the routes (Spec)                                         *)
(***************************************************************************)
Webhook(r) == reqs[r].route = "POST /webhook"
Done(r) == reqs[r].pc = "done"
InFlight(r) == reqs[r].pc \notin { "idle", "done" }

\* A text message that carries a sender and a text.
TextMessage(r) ==
    /\ Webhook(r)
    /\ reqs[r].payload.kind = "text"
    /\ NonEmpty(reqs[r].payload.x)
    /\ NonEmpty(reqs[r].payload.y)

\* C2: every POST to /webhook is answered with status 200 on every path,
\* and no request in progress is left without a next step.
C2_Always200 ==
    \A r \in Requests :
        Webhook(r) =>
            /\ Done(r) => reqs[r].status = 200
            /\ InFlight(r) => ENABLED StepOf(r)

\* The reply call failed and the request was still answered 200.
C2_Witness ==
    \E r \in Requests :
        /\ Webhook(r) /\ Done(r)
        /\ reqs[r].post = "RequestException"
        /\ reqs[r].status = 200

\* The email step ran for r and did not deliver.
EmailFailedFor(r) ==
    /\ Webhook(r)
    /\ reqs[r].emailCalls > 0
    /\ ~reqs[r].email_sent

\* C3: when the email send fails after a successful extraction,
\* send_email_quote returns False (the request goes on), the sender gets the
\* 'failed to send the email' reply, and parse_command_with_ai and
\* send_email_quote have each run exactly once for the message.
C3_EmailFailureNonFatal ==
    \A r \in Requests :
        EmailFailedFor(r) =>
            /\ reqs[r].parseCalls = 1 /\ reqs[r].aiCalls = 1
            /\ reqs[r].emailCalls = 1
            /\ reqs[r].pc \in { "emailed", "done" }
            /\ reqs[r].pc = "emailed" => reqs[r].replyCalls = 0
            /\ Done(r) =>
                  /\ reqs[r].status = 200
                  /\ reqs[r].replyCalls = 1
                  /\ reqs[r].replyText = EmailFailed
                  /\ reqs[r].posts = IF META_SET THEN 1 ELSE 0

\* The SMTP relay refused the mail and the failure reply was posted.
C3_Witness ==
    \E r \in Requests :
        /\ Done(r)
        /\ reqs[r].smtp = "smtp_error"
        /\ reqs[r].replyText = EmailFailed
        /\ reqs[r].posts = 1

\* C4: a quota-exceeded answer is retried (so the service is called at
\* least twice for that message), and two calls of the service are never in
\* progress in the same window.
C4_RateLimited ==
    /\ \A r \in Requests :
          (reqs[r].ai = "quota" /\ reqs[r].pc # "in_ai") => reqs[r].aiCalls >= 2
    /\ Cardinality({ r \in Requests : reqs[r].pc = "in_ai" }) <= 1

\* The inputs of request r: its payload and its collaborators' answers.
Inputs(r) ==
    << reqs[r].route, reqs[r].payload, reqs[r].ai, reqs[r].smtp, reqs[r].post >>

\* C5: requests are processed independently: a request in progress always
\* has a next step whatever the others are doing; two finished requests
\* with the same payload and the same answers from their collaborators have
\* the same outcome; and every delivery of a text message, duplicates
\* included, gets its own extraction, its own email when extraction
\* succeeded, and its own reply.
C5_Independent ==
    /\ \A r \in Requests : InFlight(r) => ENABLED StepOf(r)
    /\ \A r1, r2 \in Requests :
          (Done(r1) /\ Done(r2) /\ Inputs(r1) = Inputs(r2)) => reqs[r1] = reqs[r2]
    /\ \A r \in Requests :
          (TextMessage(r) /\ Done(r)) =>
              /\ reqs[r].parseCalls = 1
              /\ reqs[r].emailCalls = IF Truthy(reqs[r].context) THEN 1 ELSE 0
              /\ reqs[r].replyCalls = 1

\* The same text message was delivered twice; the email failed for one
\* delivery and was sent for the other.
C5_Witness ==
    \E r1, r2 \in Requests :
        /\ r1 # r2
        /\ TextMessage(r1) /\ TextMessage(r2)
        /\ reqs[r1].payload = reqs[r2].payload
        /\ Done(r1) /\ Done(r2)
        /\ reqs[r1].smtp = "smtp_error" /\ reqs[r1].replyText = EmailFailed
        /\ reqs[r2].smtp = "sent" /\ reqs[r2].replyText = Success

Quote(r) == reqs[r].route = "POST /quote"

C9_Gating(r) ==
    /\ reqs[r].emailCalls > 0 =>
          /\ reqs[r].parseCalls = 1
          /\ reqs[r].context # None
    /\ reqs[r].emailCalls <= 1
    /\ reqs[r].replyText = Success => reqs[r].email_sent
    /\ reqs[r].replyCalls <= 1
    /\ (Done(r) /\ reqs[r].replyCalls = 1) =>
          reqs[r].replyText =
              IF reqs[r].context = None THEN NotUnderstood
              ELSE IF reqs[r].email_sent THEN Success ELSE EmailFailed
    /\ reqs[r].payload.kind # "text" =>
          /\ reqs[r].parseCalls = 0
          /\ reqs[r].emailCalls = 0
          /\ reqs[r].replyCalls = 0

\* C9 as stated: the steps are gated as above and every text message (a
\* message of type text that has a sender and a text) gets exactly one reply.
C9_OneReplyPerText ==
    \A r \in Requests :
        Webhook(r) =>
            /\ C9_Gating(r)
            /\ ( /\ Done(r)
                 /\ reqs[r].payload.kind = "text"
                 /\ reqs[r].payload.x # Absent
                 /\ reqs[r].payload.y # Absent ) => reqs[r].replyCalls = 1

\* C9 as amended: the steps are gated as above; a text message that carries
\* a non-empty sender and a non-empty text gets exactly one call of
\* send_whatsapp_reply; a text message whose sender or text is missing or
\* empty gets no extraction, no email and no reply.
C9_OneReplyPerNonEmptyText ==
    \A r \in Requests :
        Webhook(r) =>
            /\ C9_Gating(r)
            /\ (Done(r) /\ TextMessage(r)) => reqs[r].replyCalls = 1
            /\ (Done(r) /\ ~TextMessage(r)) =>
                  /\ reqs[r].parseCalls = 0
                  /\ reqs[r].emailCalls = 0
                  /\ reqs[r].replyCalls = 0

\* A text message went through extraction, email and the success reply.
C9_Witness ==
    \E r \in Requests :
        /\ TextMessage(r) /\ Done(r)
        /\ reqs[r].parseCalls = 1 /\ reqs[r].emailCalls = 1 /\ reqs[r].replyCalls = 1
        /\ reqs[r].email_sent
        /\ reqs[r].replyText = Success

Get(r) == reqs[r].route = "GET /webhook"

\* C10: GET /webhook answers 200 with the challenge exactly when hub.mode
\* is 'subscribe' and hub.verify_token is non-empty and equal to
\* META_VERIFY_TOKEN; with mode 'subscribe' a non-empty token that differs
\* gives 403; a missing mode or token gives 400; with META_VERIFY_TOKEN
\* unset no request gets 200.
C10_Verification ==
    \A r \in Requests :
        (Get(r) /\ Done(r)) =>
            LET mode == reqs[r].payload.x
                token == reqs[r].payload.y
                verified == /\ mode = JStr("subscribe")
                            /\ NonEmpty(token)
                            /\ token = META_VERIFY_TOKEN
            IN  /\ reqs[r].status = 200 <=> verified
                /\ reqs[r].status = 200 => reqs[r].body = "hub.challenge"
                /\ (mode = JStr("subscribe") /\ NonEmpty(token)
                        /\ token # META_VERIFY_TOKEN) => reqs[r].status = 403
                /\ (mode = None \/ token = None) => reqs[r].status = 400
                /\ META_VERIFY_TOKEN = None => reqs[r].status # 200

\* With the token unset, a subscribe request carrying a token was refused.
C10_Witness ==
    \E r \in Requests :
        /\ Get(r) /\ Done(r)
        /\ META_VERIFY_TOKEN = None
        /\ reqs[r].payload.x = JStr("subscribe")
        /\ reqs[r].payload.y = JStr("tokA")
        /\ reqs[r].status = 403

====
